---- MODULE Spec2Model ----
(***************************************************************************)
(* Launch-configuration reconciliation and backend dispatch of             *)
(* accelerate/commands/launch.py: _validate_launch_command merges the      *)
(* parsed arguments, the persisted configuration and the device probes;    *)
(* launch_command selects one launcher and runs it.                        *)
(*                                                                         *)
(* Python values: None is the empty tuple, a value v that may be None is   *)
(* the one-element tuple <<v>>.  The args namespace is a function from     *)
(* attribute names to values; an attribute the namespace does not have is  *)
(* outside its DOMAIN.  A gpu_ids string is the tuple of its               *)
(* comma-separated tokens, so that split(",") is the tuple itself.         *)
(***************************************************************************)
EXTENDS Integers, Sequences, FiniteSets, TLC

VARIABLES
    raw,                  \* the parsed arguments as given to launch_command
    config,               \* what load_config_from_file returns when called
    probe,                \* host probes: device counts, capabilities, files
    pc,                   \* "start", "validated", "done"
    args,                 \* the namespace, updated in place by resolution
    defaults,             \* None, or <<config>> once loaded
    mp_from_config_flag,  \* mixed_precision was adopted from the config
    launcher,             \* the launcher launch_command entered, or "none"
    spawned,              \* number of subprocess.Popen calls
    returncode,           \* process.returncode once the child was waited for
    runtime_calls,        \* number of calls into a delegated backend runtime
    outcome,              \* how launch_command ended
    runtime_raised,       \* the delegated backend runtime raised an exception
    environ,              \* os.environ: variable name -> value
    runtime_env,          \* None, or <<os.environ as the backend runtime saw it>>
    deepspeed_env,        \* the lines of the file .deepspeed_env
    pod_args,             \* None, or <<docker_ fields of the filtered pod arguments>>
    bad_flags             \* the fields the pod launcher's error message names

vars == <<raw, config, probe, pc, args, defaults, mp_from_config_flag,
          launcher, spawned, returncode, runtime_calls, outcome,
          runtime_raised, environ, runtime_env, deepspeed_env, pod_args, bad_flags>>

(***************************************************************************)
(* Bounds of the model.                                                    *)
(***************************************************************************)
MaxDevices == 2     \* device-count probes report 0..MaxDevices
MaxProcs == 2       \* explicit and persisted num_processes are 1..MaxProcs
MaxMachines == 2    \* explicit and persisted num_machines are 1..MaxMachines
MaxExit == 2        \* a child exits with a code in 0..MaxExit
MaxCores == 2       \* psutil.cpu_count(logical=False) is 1..MaxCores

(***************************************************************************)
(* Python helpers.                                                         *)
(***************************************************************************)
None == <<>>
Some(v) == <<v>>
Val(x) == x[1]

hasattr(a, n) == n \in DOMAIN a
getattr(a, n, dflt) == IF n \in DOMAIN a THEN a[n] ELSE dflt
setattr(a, n, v) == [x \in DOMAIN a \cup {n} |-> IF x = n THEN v ELSE a[x]]

\* setattr(args, k, d[k]) for every key k of the dict d
RECURSIVE SetAll(_, _, _)
SetAll(a, d, keys) ==
    IF keys = {} THEN a
    ELSE LET k == CHOOSE x \in keys : TRUE
         IN SetAll(setattr(a, k, d[k]), d, keys \ {k})

\* truthiness of a value that is None or a non-empty string
Truthy(x) == x # None

\* truthiness of a value that is None or a bool
IsTrue(x) == x # None /\ Val(x)

\* the store_true flags of the parser: their value is a bool, never None
StoreTrueFlags ==
    {"quiet", "module", "no_python", "debug", "cpu", "multi_gpu", "tpu", "use_deepspeed",
     "use_fsdp", "use_megatron_lm", "use_xpu", "tpu_use_cluster", "tpu_use_sudo"}

\* getattr(args, name, None) is None
AttrIsNone(a, n) == ~hasattr(a, n) \/ (n \notin StoreTrueFlags /\ a[n] = None)

LOCAL_MACHINE == "LOCAL_MACHINE"
AMAZON_SAGEMAKER == "AMAZON_SAGEMAKER"

NoError == "none"
ErrExclusive == "ValueError: one of --cpu, --multi_gpu, --tpu, --use_deepspeed, --use_fsdp"
ErrTwoProcesses == "ValueError: at least 2 processes to use --multi_gpu"
ErrGpuIds == "ValueError: less than two GPU ids"
ErrBf16 == "ValueError: bf16 mixed precision requires PyTorch >= 1.10 and a supported device"
ErrAttribute == "AttributeError"
ErrType == "TypeError"

(***************************************************************************)
(* _validate_launch_command, in source order.  Every stage takes and       *)
(* returns a resolution state [err, args, mp]: err is NoError while no     *)
(* exception was raised.                                                   *)
(***************************************************************************)
\* mutant: use_fsdp left out of the sum
ExclusiveFlagsWithoutFsdp == {"multi_gpu", "cpu", "tpu", "use_deepspeed"}

ExclusiveFlags == {"multi_gpu", "cpu", "tpu", "use_deepspeed", "use_fsdp"}

\* mutant: the sum is compared with 2
SanityErrorAllowsTwo(a) ==
    IF Cardinality({f \in ExclusiveFlags : a[f]}) > 2 THEN ErrExclusive
    ELSE IF a.multi_gpu /\ a.num_processes # None /\ Val(a.num_processes) < 2
         THEN ErrTwoProcesses
    ELSE NoError

\* the two sanity checks at the top
SanityError(a) ==
    IF Cardinality({f \in ExclusiveFlags : a[f]}) > 1 THEN ErrExclusive
    ELSE IF a.multi_gpu /\ a.num_processes # None /\ Val(a.num_processes) < 2
         THEN ErrTwoProcesses
    ELSE NoError

\* the condition under which the persisted configuration is loaded
\* (`and` binds tighter than `or`)
LoadsConfig(a, pr) ==
    a.config_file # None \/ (pr.default_config_isfile /\ ~a.cpu)

NoModeRequested(a) ==
    /\ ~a.multi_gpu
    /\ ~a.tpu
    /\ ~a.tpu_use_cluster
    /\ ~a.use_deepspeed
    /\ ~a.use_fsdp
    /\ ~a.use_megatron_lm

\* the distributed mode is taken from the configuration when none was asked
AdoptMode(a, d) ==
    IF NoModeRequested(a)
    THEN LET isTpu == d.distributed_type = "TPU"
         IN [a EXCEPT
               !.use_deepspeed = d.distributed_type = "DEEPSPEED",
               !.multi_gpu = d.distributed_type \in {"MULTI_GPU", "MULTI_NPU", "MULTI_XPU"},
               !.tpu = isTpu,
               !.use_fsdp = d.distributed_type = "FSDP",
               !.use_megatron_lm = d.distributed_type = "MEGATRON_LM",
               !.tpu_use_cluster = IF isTpu THEN d.tpu_use_cluster ELSE FALSE]
    ELSE a

\* mutant: the persisted gpu_ids are not looked at
ResolveGpuIdsAlwaysAll(a, d) ==
    IF a.gpu_ids = None THEN [a EXCEPT !.gpu_ids = Some(<<"all">>)] ELSE a

ResolveGpuIds(a, d) ==
    IF a.gpu_ids = None
    THEN [a EXCEPT !.gpu_ids = IF d.gpu_ids # None THEN d.gpu_ids ELSE Some(<<"all">>)]
    ELSE a

ResolveNumMachines(a, d) ==
    IF a.multi_gpu /\ a.num_machines = None
    THEN [a EXCEPT !.num_machines = d.num_machines]
    ELSE a

\* mutant: num_machines < 1 in place of num_machines <= 1
GpuIdsErrorStrictMachines(a) ==
    IF Len(Val(a.gpu_ids)) < 2 /\ a.gpu_ids # Some(<<"all">>) /\ a.multi_gpu
    THEN IF a.num_machines = None THEN ErrType
         ELSE IF Val(a.num_machines) < 1 THEN ErrGpuIds
         ELSE NoError
    ELSE NoError

\* len(gpu_ids.split(",")) < 2 and gpu_ids != "all" and multi_gpu and num_machines <= 1
GpuIdsError(a) ==
    IF Len(Val(a.gpu_ids)) < 2 /\ a.gpu_ids # Some(<<"all">>) /\ a.multi_gpu
    THEN IF a.num_machines = None THEN ErrType
         ELSE IF Val(a.num_machines) <= 1 THEN ErrGpuIds
         ELSE NoError
    ELSE NoError

NestedConfigs ==
    {"deepspeed_config", "fsdp_config", "megatron_lm_config", "dynamo_config", "ipex_config"}

HandledSeparately == {"compute_environment", "mixed_precision", "distributed_type"}

\* "fsdp" not in key: the keys of the model that carry the substring
FsdpNamedKeys == {"fsdp_auto_wrap_policy"}
FsdpPrefixed == [offload_params |-> "fsdp_offload_params"]
FsdpArgToSet(k) == IF k \in FsdpNamedKeys THEN k ELSE FsdpPrefixed[k]

FsdpRenamed(cfg) ==
    LET names == {FsdpArgToSet(k) : k \in DOMAIN cfg}
    IN [n \in names |-> cfg[CHOOSE k \in DOMAIN cfg : FsdpArgToSet(k) = n]]

\* the nested dictionaries are copied key by key, each key with setattr
FloodNested(a, d) ==
    LET a1 == SetAll(a, d.deepspeed_config, DOMAIN d.deepspeed_config)
        f == FsdpRenamed(d.fsdp_config)
        a2 == SetAll(a1, f, DOMAIN f)
        a3 == SetAll(a2, d.megatron_lm_config, DOMAIN d.megatron_lm_config)
        a4 == SetAll(a3, d.dynamo_config, DOMAIN d.dynamo_config)
    IN SetAll(a4, d.ipex_config, DOMAIN d.ipex_config)

\* the other attributes fill the arguments that are None or missing
FloodFlat(a, d) ==
    LET names == {n \in (DOMAIN d) \ (NestedConfigs \cup HandledSeparately) :
                    AttrIsNone(a, n)}
    IN SetAll(a, d, names)

Flood(a, d) ==
    IF d.compute_environment = LOCAL_MACHINE
    THEN IF (DOMAIN d) \cap NestedConfigs # {}
         THEN FloodFlat(FloodNested(a, d), d)
         ELSE FloodFlat(a, d)
    ELSE a

ResolveDebug(a, d) == IF ~a.debug THEN [a EXCEPT !.debug = d.debug] ELSE a

\* mutant: the CPU and XPU case is not told apart
NativeAmpDeviceOnly(a, pr) == pr.bf16_available

\* native_amp of the bf16 check; reads args.use_cpu and args.use_xpu
NativeAmp(a, pr) ==
    IF IsTrue(a.use_cpu) \/ (a.use_xpu /\ pr.torch_xpu_available)
    THEN pr.torch_ge_1_10
    ELSE pr.bf16_available

\* the mixed_precision block of the configuration branch
ResolveMixedPrecision(a, d, pr) ==
    IF ~Truthy(a.mixed_precision)
    THEN IF d.mixed_precision = None
         THEN [err |-> NoError, args |-> [a EXCEPT !.mixed_precision = Some("no")], mp |-> FALSE]
         ELSE [err |-> NoError, args |-> [a EXCEPT !.mixed_precision = d.mixed_precision],
               mp |-> TRUE]
    ELSE IF ~hasattr(a, "use_cpu")
         THEN [err |-> ErrAttribute, args |-> a, mp |-> FALSE]
    ELSE IF /\ a.mixed_precision = Some("bf16")
            /\ ~NativeAmp(a, pr)
            /\ ~(a.tpu /\ pr.tpu_available)
         THEN [err |-> ErrBf16, args |-> a, mp |-> FALSE]
    ELSE [err |-> NoError, args |-> a, mp |-> FALSE]

ResolveDynamoBackend(a) ==
    IF a.dynamo_backend = None THEN [a EXCEPT !.dynamo_backend = Some("no")] ELSE a

\* the branch taken when the configuration is loaded
ConfigBranch(a, d, pr) ==
    LET a1 == ResolveNumMachines(ResolveGpuIds(AdoptMode(a, d), d), d)
    IN IF GpuIdsError(a1) # NoError
       THEN [err |-> GpuIdsError(a1), args |-> a1, mp |-> FALSE]
       ELSE LET a2 == ResolveDebug(Flood(a1, d), d)
                r == ResolveMixedPrecision(a2, d, pr)
            IN IF r.err # NoError THEN r
               ELSE [r EXCEPT !.args = ResolveDynamoBackend(r.args)]

\* mutant: only the CUDA devices are counted
DeviceCountCudaOnly(a, pr) == pr.cuda_count

\* torch.xpu / torch.npu / torch.cuda device_count(), in that priority
DeviceCount(a, pr) ==
    IF a.use_xpu /\ pr.xpu_available THEN pr.xpu_count
    ELSE IF pr.npu_available THEN pr.npu_count
    ELSE pr.cuda_count

MoreThanOneDevice(a, pr) ==
    \/ (a.use_xpu /\ pr.xpu_available /\ pr.xpu_count > 1)
    \/ (pr.npu_available /\ pr.npu_count > 1)
    \/ pr.cuda_count > 1

\* the branch taken when no configuration is loaded
AutoBranch(a, pr) ==
    LET a1 == IF a.num_processes = None
              THEN [a EXCEPT !.num_processes = Some(DeviceCount(a, pr))]
              ELSE a
        a2 == IF ~a1.multi_gpu /\ MoreThanOneDevice(a1, pr)
              THEN [a1 EXCEPT !.multi_gpu = TRUE]
              ELSE a1
        a3 == IF a2.num_machines = None THEN [a2 EXCEPT !.num_machines = Some(1)] ELSE a2
        a4 == IF a3.mixed_precision = None
              THEN [a3 EXCEPT !.mixed_precision = Some("no")]
              ELSE a3
        a5 == IF ~hasattr(a4, "use_cpu") THEN setattr(a4, "use_cpu", Some(a4.cpu)) ELSE a4
    IN [err |-> NoError, args |-> ResolveDynamoBackend(a5), mp |-> FALSE]

\* int(psutil.cpu_count(logical=False) / local_size)
ThreadsPerProcess(pr) == pr.cpu_cores \div pr.local_size

\* num_cpu_threads_per_process, unless the environment is Amazon SageMaker
ResolveCpuThreads(r, dflt, pr) ==
    LET a == r.args
        is_aws_env_disabled ==
            dflt = None \/ Val(dflt).compute_environment # AMAZON_SAGEMAKER
    IN IF is_aws_env_disabled /\ a.num_cpu_threads_per_process = None
       THEN IF ~hasattr(a, "use_cpu") THEN [r EXCEPT !.err = ErrAttribute]
            ELSE IF IsTrue(a.use_cpu) /\ a.num_processes = None
                 THEN [r EXCEPT !.err = ErrType]
            ELSE IF /\ IsTrue(a.use_cpu)
                    /\ Val(a.num_processes) >= 1
                    /\ ThreadsPerProcess(pr) > 1
                 THEN [r EXCEPT !.args.num_cpu_threads_per_process =
                                    Some(ThreadsPerProcess(pr))]
            ELSE [r EXCEPT !.args.num_cpu_threads_per_process = Some(1)]
       ELSE r

\* _validate_launch_command(args): [err, args, defaults, mp]
Validate(a, cfg, pr) ==
    IF SanityError(a) # NoError
    THEN [err |-> SanityError(a), args |-> a, defaults |-> None, mp |-> FALSE]
    ELSE LET dflt == IF LoadsConfig(a, pr) THEN Some(cfg) ELSE None
             r == IF dflt # None THEN ConfigBranch(a, cfg, pr) ELSE AutoBranch(a, pr)
             s == IF r.err # NoError THEN r ELSE ResolveCpuThreads(r, dflt, pr)
         IN [err |-> s.err, args |-> s.args, defaults |-> dflt, mp |-> s.mp]

(***************************************************************************)
(* launch_command: the launcher chosen for the resolved arguments.         *)
(***************************************************************************)
\* mutant: the managed-cloud test comes before the TPU test
SelectLauncherManagedFirst(a, dflt) ==
    IF a.use_deepspeed /\ ~a.cpu THEN "deepspeed_launcher"
    ELSE IF a.use_fsdp /\ ~a.cpu THEN "multi_gpu_launcher"
    ELSE IF a.use_megatron_lm /\ ~a.cpu THEN "multi_gpu_launcher"
    ELSE IF a.multi_gpu /\ ~a.cpu THEN "multi_gpu_launcher"
    ELSE IF dflt # None /\ Val(dflt).compute_environment = AMAZON_SAGEMAKER
         THEN "sagemaker_launcher"
    ELSE IF a.tpu /\ ~a.cpu
         THEN IF a.tpu_use_cluster THEN "tpu_pod_launcher" ELSE "tpu_launcher"
    ELSE "simple_launcher"

\* mutant: the DeepSpeed branch does not test cpu
SelectLauncherDeepspeedOnCpu(a, dflt) ==
    IF a.use_deepspeed THEN "deepspeed_launcher"
    ELSE IF a.use_fsdp /\ ~a.cpu THEN "multi_gpu_launcher"
    ELSE IF a.use_megatron_lm /\ ~a.cpu THEN "multi_gpu_launcher"
    ELSE IF a.multi_gpu /\ ~a.cpu THEN "multi_gpu_launcher"
    ELSE IF a.tpu /\ ~a.cpu
         THEN IF a.tpu_use_cluster THEN "tpu_pod_launcher" ELSE "tpu_launcher"
    ELSE IF dflt # None /\ Val(dflt).compute_environment = AMAZON_SAGEMAKER
         THEN "sagemaker_launcher"
    ELSE "simple_launcher"

SelectLauncher(a, dflt) ==
    IF a.use_deepspeed /\ ~a.cpu THEN "deepspeed_launcher"
    ELSE IF a.use_fsdp /\ ~a.cpu THEN "multi_gpu_launcher"
    ELSE IF a.use_megatron_lm /\ ~a.cpu THEN "multi_gpu_launcher"
    ELSE IF a.multi_gpu /\ ~a.cpu THEN "multi_gpu_launcher"
    ELSE IF a.tpu /\ ~a.cpu
         THEN IF a.tpu_use_cluster THEN "tpu_pod_launcher" ELSE "tpu_launcher"
    ELSE IF dflt # None /\ Val(dflt).compute_environment = AMAZON_SAGEMAKER
         THEN "sagemaker_launcher"
    ELSE "simple_launcher"

(***************************************************************************)
(* How a launcher ends: it returns, or an exception leaves it.             *)
(***************************************************************************)
Returned == [kind |-> "returned", code |-> 0]
Raised(what) == [kind |-> what, code |-> 0]
Pending == [kind |-> "pending", code |-> 0]

\* mutant: quiet mode exits with the child's code
SubprocessOutcomeQuietKeepsCode(rc, quiet) ==
    IF rc # 0
    THEN IF ~quiet
         THEN [kind |-> "CalledProcessError", code |-> rc]
         ELSE [kind |-> "SystemExit", code |-> rc]
    ELSE Returned

\* process.wait() and the returncode test of the subprocess launchers
SubprocessOutcome(rc, quiet) ==
    IF rc # 0
    THEN IF ~quiet
         THEN [kind |-> "CalledProcessError", code |-> rc]
         ELSE [kind |-> "SystemExit", code |-> 1]
    ELSE Returned

\* the try/except around a delegated runtime call
RuntimeOutcome(raises, debug, pr) ==
    IF raises
    THEN IF pr.is_rich_available /\ debug THEN Returned ELSE Raised("Exception")
    ELSE Returned

DEEPSPEED_MULTINODE_STANDARD == "standard"

\* mutant: a single machine takes the subprocess branch too
DeepspeedSubprocessSingleNode(a) ==
    /\ Val(a.num_machines) >= 1
    /\ a.deepspeed_multinode_launcher # Some(DEEPSPEED_MULTINODE_STANDARD)

\* the subprocess branch of deepspeed_launcher is taken
DeepspeedSubprocess(a) ==
    /\ Val(a.num_machines) > 1
    /\ a.deepspeed_multinode_launcher # Some(DEEPSPEED_MULTINODE_STANDARD)

(***************************************************************************)
(* Environments.  An environment maps variable names to values; a value is *)
(* the tuple of its pieces, the characters " " and ";" being pieces of     *)
(* their own, so that `" " in value` is a test on the pieces.              *)
(***************************************************************************)
\* the order in which a built environment is iterated
EnvOrder == <<"PATH", "NCCL_DEBUG", "ACCELERATE_MIXED_PRECISION", "ACCELERATE_DEBUG_MODE">>

\* the variables the per-backend builders add for the resolved arguments
EnvAdditions(a) ==
    LET mp == IF a.mixed_precision = None THEN <<"None">> ELSE <<Val(a.mixed_precision)>>
        base == [ACCELERATE_MIXED_PRECISION |-> mp]
    IN IF getattr(a, "debug", FALSE)
       THEN [ACCELERATE_MIXED_PRECISION |-> mp, ACCELERATE_DEBUG_MODE |-> <<"true">>]
       ELSE base

\* dict.update: the entries of kv over those of env
Updated(env, kv) ==
    [n \in DOMAIN env \cup DOMAIN kv |-> IF n \in DOMAIN kv THEN kv[n] ELSE env[n]]

\* prepare_multi_gpu_env, prepare_deepspeed_cmd_env: a copy of os.environ
\* with the variables of the resolved arguments
BuiltEnv(a, env) == Updated(env, EnvAdditions(a))

\* prepare_tpu(args, {}): the variables of the resolved arguments alone
TpuEnv(a) == Updated(<<>>, EnvAdditions(a))

\* patch_environment on entry: the given variables are set in os.environ
PatchEnvironmentEnter(env, kv) == Updated(env, kv)

\* patch_environment on exit: every given variable goes back to the value it
\* had on entry, or is removed when it had none
PatchEnvironmentExit(env, saved, kv) ==
    [n \in DOMAIN env \ (DOMAIN kv \ DOMAIN saved) |->
        IF n \in DOMAIN kv THEN saved[n] ELSE env[n]]

\* `";" in value or " " in value`
HasSpaceOrSemicolon(value) == \E i \in 1..Len(value) : value[i] \in {";", " "}

\* mutant: only values with a semicolon are skipped
DeepspeedEnvLinesKeepsSpaces(current_env) ==
    LET Written(k) == k \in DOMAIN current_env
                        /\ ~(\E i \in 1..Len(current_env[k]) : current_env[k][i] = ";")
        keys == SelectSeq(EnvOrder, Written)
    IN [i \in 1..Len(keys) |-> <<keys[i], "=">> \o current_env[keys[i]]]

\* the lines the loop over current_env.items() writes to .deepspeed_env
DeepspeedEnvLines(current_env) ==
    LET Written(k) == k \in DOMAIN current_env /\ ~HasSpaceOrSemicolon(current_env[k])
        keys == SelectSeq(EnvOrder, Written)
    IN [i \in 1..Len(keys) |-> <<keys[i], "=">> \o current_env[keys[i]]]

\* mutant: the patch is left in place when the exception propagates
InProcessRunLeaksOnRaise(env, current_env, raises, debug, pr) ==
    LET patched == PatchEnvironmentEnter(env, current_env)
        o == RuntimeOutcome(raises, debug, pr)
    IN [outcome |-> o,
        seen |-> patched,
        environ |-> IF o = Returned
                    THEN PatchEnvironmentExit(patched, env, current_env)
                    ELSE patched]

\* the try/except around distrib_run.run inside `with patch_environment`:
\* how it ends, the environment the runtime saw and the one left behind
InProcessRun(env, current_env, raises, debug, pr) ==
    LET patched == PatchEnvironmentEnter(env, current_env)
    IN [outcome |-> RuntimeOutcome(raises, debug, pr),
        seen |-> patched,
        environ |-> PatchEnvironmentExit(patched, env, current_env)]

\* xmp.spawn inside `with patch_environment`, without a try
SpawnRun(env, current_env, raises) ==
    LET patched == PatchEnvironmentEnter(env, current_env)
    IN [outcome |-> IF raises THEN Raised("Exception") ELSE Returned,
        seen |-> patched,
        environ |-> PatchEnvironmentExit(patched, env, current_env)]

\* mutant: None counts as a value
BadFlagsNoneCounts(new_args) ==
    {f \in DOMAIN new_args : new_args[f] # Some("")}

\* the docker_ fields of the filtered arguments that are neither "" nor None
BadFlags(new_args) ==
    {f \in DOMAIN new_args : new_args[f] # Some("") /\ new_args[f] # None}

DockerArgs == [docker_image : {None, Some(""), Some("img")},
               docker_container : {Some(""), Some("box")}]

\* the order in which the keys of a nested configuration are listed
DictKeyOrder == <<"zero_stage", "offload_optimizer_device", "gradient_accumulation_steps">>

\* list(d.keys())
Keys(d) == LET In(k) == k \in DOMAIN d IN SelectSeq(DictKeyOrder, In)

\* ",".join(l): the pieces of the joined string
RECURSIVE Join(_)
Join(l) ==
    IF Len(l) = 0 THEN <<>>
    ELSE IF Len(l) = 1 THEN <<l[1]>>
    ELSE <<l[1], ",">> \o Join(Tail(l))

\* mutant: mixed_precision is listed whenever a configuration was loaded
DeepspeedFieldsAnyPrecision(dflt, mp) ==
    LET keys == IF dflt # None THEN Keys(Val(dflt).deepspeed_config) ELSE <<>>
    IN Join(IF dflt # None THEN Append(keys, "mixed_precision") ELSE keys)

\* args.deepspeed_fields_from_accelerate_config as launch_command sets it
DeepspeedFields(dflt, mp) ==
    LET keys == IF dflt # None THEN Keys(Val(dflt).deepspeed_config) ELSE <<>>
    IN Join(IF mp THEN Append(keys, "mixed_precision") ELSE keys)

(***************************************************************************)
(* The steps of launch_command.                                            *)
(***************************************************************************)
\* what a launcher that touches nothing but its own result leaves behind
NoEffects ==
    [args |-> args, raised |-> FALSE, environ |-> environ, seen |-> None,
     file |-> deepspeed_env, pod |-> None, bad |-> {}]

\* a launcher ran to its end: `child` is None, or the exit code of the child
\* it spawned and waited for; `run` counts its calls into a backend runtime;
\* `eff` is what it did to the arguments, the environment and the files
FinishWith(name, o, child, run, eff) ==
    /\ pc' = "done"
    /\ launcher' = name
    /\ outcome' = o
    /\ spawned' = IF child = None THEN spawned ELSE spawned + 1
    /\ returncode' = child
    /\ runtime_calls' = runtime_calls + run
    /\ args' = eff.args
    /\ runtime_raised' = eff.raised
    /\ environ' = eff.environ
    /\ runtime_env' = eff.seen
    /\ deepspeed_env' = eff.file
    /\ pod_args' = eff.pod
    /\ bad_flags' = eff.bad
    /\ UNCHANGED <<raw, config, probe, defaults, mp_from_config_flag>>

Finish(name, o, child, run) == FinishWith(name, o, child, run, NoEffects)

\* a launcher called the backend runtime inside the environment patch
FinishRun(name, r, raises, a) ==
    FinishWith(name, r.outcome, None, 1,
               [NoEffects EXCEPT !.args = a, !.raised = raises,
                                 !.environ = r.environ, !.seen = Some(r.seen)])

\* args, defaults, mp_from_config_flag = _validate_launch_command(args)
ValidateLaunchCommand ==
    /\ pc = "start"
    /\ LET r == Validate(args, config, probe)
       IN /\ args' = r.args
          /\ defaults' = r.defaults
          /\ mp_from_config_flag' = r.mp
          /\ pc' = IF r.err = NoError THEN "validated" ELSE "done"
          /\ outcome' = IF r.err = NoError THEN Pending ELSE Raised(r.err)
    /\ UNCHANGED <<raw, config, probe, launcher, spawned, returncode, runtime_calls,
                   runtime_raised, environ, runtime_env, deepspeed_env, pod_args,
                   bad_flags>>

Selected(name) == pc = "validated" /\ SelectLauncher(args, defaults) = name

SimpleLauncher ==
    /\ Selected("simple_launcher")
    /\ \E rc \in 0..MaxExit :
          Finish("simple_launcher", SubprocessOutcome(rc, args.quiet), Some(rc), 0)

MultiGpuLauncher ==
    /\ Selected("multi_gpu_launcher")
    /\ \E raises \in BOOLEAN :
          FinishRun("multi_gpu_launcher",
                    InProcessRun(environ, BuiltEnv(args, environ), raises,
                                 getattr(args, "debug", FALSE), probe),
                    raises, args)

DeepspeedLauncher ==
    /\ Selected("deepspeed_launcher")
    /\ LET a == setattr(args, "deepspeed_fields_from_accelerate_config",
                        DeepspeedFields(defaults, mp_from_config_flag))
           current_env == BuiltEnv(a, environ)
       IN IF ~probe.is_deepspeed_available
          THEN FinishWith("deepspeed_launcher", Raised("ImportError"), None, 0,
                          [NoEffects EXCEPT !.args = a])
          ELSE IF a.num_machines = None
          THEN FinishWith("deepspeed_launcher", Raised(ErrType), None, 0,
                          [NoEffects EXCEPT !.args = a])
          ELSE IF DeepspeedSubprocess(a)
          THEN \E rc \in 0..MaxExit :
                  FinishWith("deepspeed_launcher", SubprocessOutcome(rc, a.quiet),
                             Some(rc), 0,
                             [NoEffects EXCEPT
                                 !.args = a,
                                 !.file = deepspeed_env \o DeepspeedEnvLines(current_env)])
          ELSE \E raises \in BOOLEAN :
                  FinishRun("deepspeed_launcher",
                            InProcessRun(environ, current_env, raises,
                                         getattr(a, "debug", FALSE), probe),
                            raises, a)

\* mutant: the TPU launcher refuses --module instead of --no_python
TpuRefusesModule(a) == a.module

\* tpu_launcher refuses an entry point that is not run by python
TpuRefuses(a) == a.no_python

TpuLauncher ==
    /\ Selected("tpu_launcher")
    /\ IF TpuRefuses(args)
       THEN Finish("tpu_launcher", Raised("ValueError: --no_python with TPU"), None, 0)
       ELSE \E has_main \in BOOLEAN, raises \in BOOLEAN :
               IF ~has_main
               THEN Finish("tpu_launcher", Raised("ValueError: main_training_function"), None, 0)
               ELSE FinishRun("tpu_launcher", SpawnRun(environ, TpuEnv(args), raises),
                              raises, args)

TpuPodLauncher ==
    /\ Selected("tpu_pod_launcher")
    /\ \E new_args \in DockerArgs, raises \in BOOLEAN :
          IF BadFlags(new_args) # {}
          THEN FinishWith("tpu_pod_launcher", Raised("ValueError: docker flags"), None, 0,
                          [NoEffects EXCEPT !.pod = Some(new_args),
                                            !.bad = BadFlags(new_args)])
          ELSE FinishWith("tpu_pod_launcher",
                          RuntimeOutcome(raises, getattr(args, "debug", FALSE), probe),
                          None, 1,
                          [NoEffects EXCEPT !.pod = Some(new_args), !.raised = raises])

\* mutant: only --module together with --no_python is refused
SagemakerRefusesBoth(a) == a.module /\ a.no_python

\* sagemaker_launcher refuses an entry point that is not a script file
SagemakerRefuses(a) == a.module \/ a.no_python

SagemakerLauncher ==
    /\ Selected("sagemaker_launcher")
    /\ IF ~probe.is_sagemaker_available
       THEN Finish("sagemaker_launcher", Raised("ImportError"), None, 0)
       ELSE IF SagemakerRefuses(args)
       THEN Finish("sagemaker_launcher", Raised("ValueError: --module or --no_python"), None, 0)
       ELSE \E raises \in BOOLEAN :
               FinishWith("sagemaker_launcher",
                          IF raises THEN Raised("Exception") ELSE Returned, None, 1,
                          [NoEffects EXCEPT !.raised = raises])

Next ==
    \/ ValidateLaunchCommand
    \/ SimpleLauncher
    \/ MultiGpuLauncher
    \/ DeepspeedLauncher
    \/ TpuLauncher
    \/ TpuPodLauncher
    \/ SagemakerLauncher

(***************************************************************************)
(* Inputs.  A domain maps every attribute to the set of values it is drawn *)
(* from.                                                                   *)
(***************************************************************************)
OptInt(lo, hi) == {None} \cup {Some(n) : n \in lo..hi}

\* what the parser yields when no option is given
ParserDefaults ==
    [config_file |-> {None},
     quiet |-> {FALSE},
     module |-> {FALSE},
     no_python |-> {FALSE},
     cpu |-> {FALSE},
     multi_gpu |-> {FALSE},
     tpu |-> {FALSE},
     mixed_precision |-> {None},
     num_processes |-> {None},
     num_machines |-> {None},
     num_cpu_threads_per_process |-> {None},
     use_deepspeed |-> {FALSE},
     use_fsdp |-> {FALSE},
     use_megatron_lm |-> {FALSE},
     use_xpu |-> {FALSE},
     dynamo_backend |-> {None},
     gpu_ids |-> {None},
     tpu_use_cluster |-> {FALSE},
     zero_stage |-> {None},
     deepspeed_multinode_launcher |-> {Some("pdsh")},
     fsdp_offload_params |-> {None},
     debug |-> {FALSE}]

\* a configuration as `accelerate config` writes it for one machine
ConfigDefaults ==
    [compute_environment |-> {LOCAL_MACHINE},
     distributed_type |-> {"NO"},
     mixed_precision |-> {None},
     use_cpu |-> {Some(FALSE)},
     debug |-> {FALSE},
     num_processes |-> {Some(1)},
     num_machines |-> {Some(1)},
     gpu_ids |-> {None},
     tpu_use_cluster |-> {FALSE},
     deepspeed_config |-> {<<>>},
     fsdp_config |-> {<<>>},
     megatron_lm_config |-> {<<>>},
     dynamo_config |-> {<<>>},
     ipex_config |-> {<<>>}]

\* a host with every integration installed and no accelerator
ProbeDefaults ==
    [default_config_isfile |-> {FALSE},
     cuda_count |-> {0},
     npu_available |-> {FALSE},
     npu_count |-> {0},
     xpu_available |-> {FALSE},
     xpu_count |-> {0},
     torch_xpu_available |-> {FALSE},
     torch_ge_1_10 |-> {TRUE},
     bf16_available |-> {FALSE},
     tpu_available |-> {FALSE},
     cpu_cores |-> {1},
     local_size |-> {1},
     is_rich_available |-> {TRUE},
     is_deepspeed_available |-> {TRUE},
     is_sagemaker_available |-> {TRUE}]

\* the namespaces over a domain
RawRequests(D) ==
    [config_file : D.config_file,
     quiet : D.quiet,
     module : D.module,
     no_python : D.no_python,
     cpu : D.cpu,
     multi_gpu : D.multi_gpu,
     tpu : D.tpu,
     mixed_precision : D.mixed_precision,
     num_processes : D.num_processes,
     num_machines : D.num_machines,
     num_cpu_threads_per_process : D.num_cpu_threads_per_process,
     use_deepspeed : D.use_deepspeed,
     use_fsdp : D.use_fsdp,
     use_megatron_lm : D.use_megatron_lm,
     use_xpu : D.use_xpu,
     dynamo_backend : D.dynamo_backend,
     gpu_ids : D.gpu_ids,
     tpu_use_cluster : D.tpu_use_cluster,
     zero_stage : D.zero_stage,
     deepspeed_multinode_launcher : D.deepspeed_multinode_launcher,
     fsdp_offload_params : D.fsdp_offload_params,
     debug : D.debug]

Configs(D) ==
    [compute_environment : D.compute_environment,
     distributed_type : D.distributed_type,
     mixed_precision : D.mixed_precision,
     use_cpu : D.use_cpu,
     debug : D.debug,
     num_processes : D.num_processes,
     num_machines : D.num_machines,
     gpu_ids : D.gpu_ids,
     tpu_use_cluster : D.tpu_use_cluster,
     deepspeed_config : D.deepspeed_config,
     fsdp_config : D.fsdp_config,
     megatron_lm_config : D.megatron_lm_config,
     dynamo_config : D.dynamo_config,
     ipex_config : D.ipex_config]

Probes(D) ==
    [default_config_isfile : D.default_config_isfile,
     cuda_count : D.cuda_count,
     npu_available : D.npu_available,
     npu_count : D.npu_count,
     xpu_available : D.xpu_available,
     xpu_count : D.xpu_count,
     torch_xpu_available : D.torch_xpu_available,
     torch_ge_1_10 : D.torch_ge_1_10,
     bf16_available : D.bf16_available,
     tpu_available : D.tpu_available,
     cpu_cores : D.cpu_cores,
     local_size : D.local_size,
     is_rich_available : D.is_rich_available,
     is_deepspeed_available : D.is_deepspeed_available,
     is_sagemaker_available : D.is_sagemaker_available]

\* an environment that holds nothing the launchers set
DefaultEnviron == [PATH |-> <<"/usr/bin">>]

\* The content of a configuration file matters only to a run that loads it.
InitWithEnv(RawDomain, ConfigDomain, ProbeDomain, Environs, Files) ==
    /\ raw \in RawRequests(RawDomain)
    /\ probe \in Probes(ProbeDomain)
    /\ config \in Configs(ConfigDomain)
    /\ IF LoadsConfig(raw, probe) THEN TRUE
       ELSE config = CHOOSE c \in Configs(ConfigDomain) : TRUE
    /\ pc = "start"
    /\ args = raw
    /\ defaults = None
    /\ mp_from_config_flag = FALSE
    /\ launcher = "none"
    /\ spawned = 0
    /\ returncode = None
    /\ runtime_calls = 0
    /\ outcome = Pending
    /\ runtime_raised = FALSE
    /\ environ \in Environs
    /\ runtime_env = None
    /\ deepspeed_env \in Files
    /\ pod_args = None
    /\ bad_flags = {}

InitWith(RawDomain, ConfigDomain, ProbeDomain) ==
    InitWithEnv(RawDomain, ConfigDomain, ProbeDomain, {DefaultEnviron}, {<<>>})

\* every combination of the distributed-mode flags
ModeFlags ==
    [ParserDefaults EXCEPT
        !.cpu = BOOLEAN, !.multi_gpu = BOOLEAN, !.tpu = BOOLEAN, !.use_deepspeed = BOOLEAN,
        !.use_fsdp = BOOLEAN, !.use_megatron_lm = BOOLEAN, !.tpu_use_cluster = BOOLEAN,
        !.config_file = {None, Some("config.yaml")}]

ModeConfigs ==
    [ConfigDefaults EXCEPT
        !.compute_environment = {LOCAL_MACHINE, AMAZON_SAGEMAKER},
        !.distributed_type = {"NO", "MULTI_GPU", "DEEPSPEED", "FSDP", "TPU", "MEGATRON_LM"},
        !.tpu_use_cluster = BOOLEAN]

ModeProbes ==
    [ProbeDefaults EXCEPT !.default_config_isfile = BOOLEAN, !.cuda_count = 0..MaxDevices]

Init == InitWith(ModeFlags, ModeConfigs, ModeProbes)

Spec == Init /\ [][Next]_vars

Resolution == ValidateLaunchCommand

\* gpu_ids against multi_gpu and num_machines, with and without a configuration
GpuIdRequests ==
    [ParserDefaults EXCEPT
        !.cpu = BOOLEAN, !.multi_gpu = BOOLEAN,
        !.gpu_ids = {None, Some(<<"all">>), Some(<<"0">>), Some(<<"0", "1">>)},
        !.num_machines = OptInt(1, MaxMachines),
        !.config_file = {None, Some("config.yaml")}]

GpuIdConfigs ==
    [ConfigDefaults EXCEPT
        !.compute_environment = {LOCAL_MACHINE, AMAZON_SAGEMAKER},
        !.distributed_type = {"NO", "MULTI_GPU"},
        !.gpu_ids = {None, Some(<<"0">>)},
        !.num_machines = {Some(n) : n \in 1..MaxMachines}]

GpuIdProbes == [ProbeDefaults EXCEPT !.cuda_count = 0..MaxDevices]

InitGpuIds == InitWith(GpuIdRequests, GpuIdConfigs, GpuIdProbes)
SpecGpuIds == InitGpuIds /\ [][Resolution]_vars

\* num_processes given, persisted or probed
ProcessRequests ==
    [ParserDefaults EXCEPT
        !.cpu = BOOLEAN, !.multi_gpu = BOOLEAN, !.use_xpu = BOOLEAN,
        !.num_processes = OptInt(1, MaxProcs),
        !.config_file = {None, Some("config.yaml")}]

ProcessConfigs ==
    [ConfigDefaults EXCEPT
        !.compute_environment = {LOCAL_MACHINE, AMAZON_SAGEMAKER},
        !.distributed_type = {"NO", "MULTI_GPU"},
        !.num_processes = {Some(n) : n \in 1..MaxProcs}]

ProcessProbes ==
    [ProbeDefaults EXCEPT
        !.cuda_count = 0..MaxDevices,
        !.npu_available = BOOLEAN, !.npu_count = 1..MaxDevices,
        !.xpu_available = BOOLEAN, !.xpu_count = 1..MaxDevices]

InitProcesses == InitWith(ProcessRequests, ProcessConfigs, ProcessProbes)
SpecProcesses == InitProcesses /\ [][Resolution]_vars

\* mixed_precision given or persisted, against the capability probes
PrecisionRequests ==
    [ParserDefaults EXCEPT
        !.cpu = BOOLEAN, !.tpu = BOOLEAN, !.use_xpu = BOOLEAN,
        !.mixed_precision = {None, Some("no"), Some("fp16"), Some("bf16")},
        !.config_file = {None, Some("config.yaml")}]

PrecisionConfigs ==
    [ConfigDefaults EXCEPT
        !.compute_environment = {LOCAL_MACHINE, AMAZON_SAGEMAKER},
        !.distributed_type = {"NO", "TPU"},
        !.mixed_precision = {None, Some("fp16"), Some("bf16")},
        !.use_cpu = {Some(FALSE), Some(TRUE)}]

PrecisionProbes ==
    [ProbeDefaults EXCEPT
        !.default_config_isfile = BOOLEAN,
        !.bf16_available = BOOLEAN, !.torch_ge_1_10 = BOOLEAN,
        !.torch_xpu_available = BOOLEAN, !.tpu_available = BOOLEAN]

InitPrecision == InitWith(PrecisionRequests, PrecisionConfigs, PrecisionProbes)
SpecPrecision == InitPrecision /\ [][Resolution]_vars

\* every mergeable field given or not, against a configuration that holds it
MergeRequests ==
    [ParserDefaults EXCEPT
        !.cpu = BOOLEAN,
        !.num_processes = {None, Some(MaxProcs)},
        !.num_machines = {None, Some(MaxMachines)},
        !.gpu_ids = {None, Some(<<"0", "1">>)},
        !.mixed_precision = {None, Some("fp16")},
        !.num_cpu_threads_per_process = {None, Some(MaxCores)},
        !.zero_stage = {None, Some(3)},
        !.config_file = {None, Some("config.yaml")}]

MergeConfigs ==
    [ConfigDefaults EXCEPT
        !.compute_environment = {LOCAL_MACHINE, AMAZON_SAGEMAKER},
        !.distributed_type = {"NO", "MULTI_GPU"},
        !.gpu_ids = {None, Some(<<"2", "3">>)},
        !.mixed_precision = {None, Some("bf16")},
        !.use_cpu = {Some(FALSE), Some(TRUE)},
        !.deepspeed_config = {<<>>, [zero_stage |-> Some(2)]},
        !.fsdp_config = {<<>>, [offload_params |-> Some(TRUE)]}]

MergeProbes == [ProbeDefaults EXCEPT !.cpu_cores = 1..MaxCores]

InitMerge == InitWith(MergeRequests, MergeConfigs, MergeProbes)
SpecMerge == InitMerge /\ [][Resolution]_vars

\* the launchers run to their end, with and without --quiet and --debug
RunRequests ==
    [ParserDefaults EXCEPT
        !.multi_gpu = BOOLEAN, !.tpu = BOOLEAN, !.use_deepspeed = BOOLEAN,
        !.tpu_use_cluster = BOOLEAN,
        !.quiet = BOOLEAN, !.debug = BOOLEAN, !.no_python = BOOLEAN,
        !.num_machines = OptInt(1, MaxMachines),
        !.deepspeed_multinode_launcher = {Some("pdsh"), Some("standard")},
        !.config_file = {None, Some("config.yaml")}]

RunConfigs ==
    [ConfigDefaults EXCEPT !.compute_environment = {LOCAL_MACHINE, AMAZON_SAGEMAKER}]

RunProbes ==
    [ProbeDefaults EXCEPT !.is_rich_available = BOOLEAN, !.is_deepspeed_available = BOOLEAN]

InitRun == InitWith(RunRequests, RunConfigs, RunProbes)
SpecRun == InitRun /\ [][Next]_vars

\* the launchers against environments and an auxiliary file that hold
\* something already
EnvRequests ==
    [ParserDefaults EXCEPT
        !.multi_gpu = BOOLEAN, !.tpu = BOOLEAN, !.use_deepspeed = BOOLEAN,
        !.tpu_use_cluster = BOOLEAN,
        !.quiet = BOOLEAN, !.debug = BOOLEAN,
        !.num_machines = OptInt(1, MaxMachines),
        !.deepspeed_multinode_launcher = {Some("pdsh"), Some("standard")},
        !.config_file = {None, Some("config.yaml")}]

EnvConfigs ==
    [ConfigDefaults EXCEPT !.compute_environment = {LOCAL_MACHINE, AMAZON_SAGEMAKER}]

Environs ==
    {DefaultEnviron,
     [PATH |-> <<"/usr/bin">>, NCCL_DEBUG |-> <<"INFO", " ", "WARN">>],
     [PATH |-> <<"/usr/bin">>, NCCL_DEBUG |-> <<"a", ";", "b">>,
      ACCELERATE_MIXED_PRECISION |-> <<"fp8">>]}

EnvFiles == {<<>>, << <<"PATH", "=", "/bin">> >>}

EnvProbes == [ProbeDefaults EXCEPT !.is_deepspeed_available = BOOLEAN]

InitEnv == InitWithEnv(EnvRequests, EnvConfigs, EnvProbes, Environs, EnvFiles)
SpecEnv == InitEnv /\ [][Next]_vars

\* the entry point given as a script, a module or a bare command, against
\* every way of choosing a launcher
EntryRequests ==
    [ParserDefaults EXCEPT
        !.cpu = BOOLEAN, !.multi_gpu = BOOLEAN, !.tpu = BOOLEAN,
        !.use_megatron_lm = BOOLEAN, !.tpu_use_cluster = BOOLEAN,
        !.module = BOOLEAN, !.no_python = BOOLEAN,
        !.config_file = {None, Some("config.yaml")}]

EntryConfigs ==
    [ConfigDefaults EXCEPT
        !.compute_environment = {LOCAL_MACHINE, AMAZON_SAGEMAKER},
        !.distributed_type = {"NO", "MULTI_GPU", "DEEPSPEED", "TPU"}]

EntryProbes ==
    [ProbeDefaults EXCEPT
        !.default_config_isfile = BOOLEAN,
        !.cuda_count = {0, MaxDevices},
        !.is_sagemaker_available = BOOLEAN]

InitEntry == InitWith(EntryRequests, EntryConfigs, EntryProbes)
SpecEntry == InitEntry /\ [][Next]_vars

\* mixed_precision given or persisted, against every launcher
ProvenanceRequests ==
    [ParserDefaults EXCEPT
        !.cpu = BOOLEAN, !.multi_gpu = BOOLEAN, !.tpu = BOOLEAN,
        !.use_deepspeed = BOOLEAN, !.tpu_use_cluster = BOOLEAN,
        !.mixed_precision = {None, Some("fp16")},
        !.config_file = {None, Some("config.yaml")}]

ProvenanceConfigs ==
    [ConfigDefaults EXCEPT
        !.compute_environment = {LOCAL_MACHINE, AMAZON_SAGEMAKER},
        !.distributed_type = {"NO", "DEEPSPEED"},
        !.mixed_precision = {None, Some("fp16"), Some("bf16")},
        !.deepspeed_config =
            {<<>>,
             [zero_stage |-> Some(2)],
             [zero_stage |-> Some(2), offload_optimizer_device |-> Some("cpu")]}]

ProvenanceProbes == [ProbeDefaults EXCEPT !.default_config_isfile = BOOLEAN]

InitProvenance == InitWith(ProvenanceRequests, ProvenanceConfigs, ProvenanceProbes)
SpecProvenance == InitProvenance /\ [][Next]_vars

(***************************************************************************)
(* Properties.                                                             *)
(***************************************************************************)
Resolved == pc = "validated" \/ (pc = "done" /\ launcher # "none")
ResolutionFailed == pc = "done" /\ launcher = "none"

ConfigurationErrors == {ErrExclusive, ErrTwoProcesses, ErrGpuIds, ErrBf16}

TrueFlags(a, flags) == {f \in flags : a[f]}

NothingLaunched == launcher = "none" /\ spawned = 0 /\ runtime_calls = 0

\* C1 as stated: a request with more than one of multi_gpu, cpu, tpu,
\* use_deepspeed, use_megatron_lm set fails resolution with a configuration
\* error, and nothing is launched or spawned.
C1_AsStated ==
    (pc # "start" /\ Cardinality(TrueFlags(raw,
        {"multi_gpu", "cpu", "tpu", "use_deepspeed", "use_megatron_lm"})) > 1)
    => (ResolutionFailed /\ outcome.kind \in ConfigurationErrors /\ NothingLaunched)

\* C1 amended: a request with more than one of multi_gpu, cpu, tpu,
\* use_deepspeed, use_fsdp set fails resolution with the mutually-exclusive
\* flags error, and nothing is launched or spawned.
C1_ExclusiveFlagsRejected ==
    (pc # "start" /\ Cardinality(TrueFlags(raw,
        {"multi_gpu", "cpu", "tpu", "use_deepspeed", "use_fsdp"})) > 1)
    => (ResolutionFailed /\ outcome.kind = ErrExclusive /\ NothingLaunched)

C1_Witness ==
    /\ ResolutionFailed
    /\ outcome.kind = ErrExclusive
    /\ raw.use_fsdp /\ raw.multi_gpu /\ ~raw.cpu /\ ~raw.tpu /\ ~raw.use_deepspeed

\* the launcher the priority list of C2 names for a resolved configuration
C2_Priority(a, dflt) ==
    LET managed == dflt # None /\ Val(dflt).compute_environment = "AMAZON_SAGEMAKER"
        picks == <<
            <<a.use_deepspeed /\ ~a.cpu, "deepspeed_launcher">>,
            <<a.use_fsdp /\ ~a.cpu, "multi_gpu_launcher">>,
            <<a.use_megatron_lm /\ ~a.cpu, "multi_gpu_launcher">>,
            <<a.multi_gpu /\ ~a.cpu, "multi_gpu_launcher">>,
            <<a.tpu /\ ~a.cpu /\ a.tpu_use_cluster, "tpu_pod_launcher">>,
            <<a.tpu /\ ~a.cpu /\ ~a.tpu_use_cluster, "tpu_launcher">>,
            <<managed, "sagemaker_launcher">>,
            <<TRUE, "simple_launcher">> >>
        first == CHOOSE i \in 1..Len(picks) :
                    picks[i][1] /\ \A j \in 1..(i - 1) : ~picks[j][1]
    IN picks[first][2]

\* C2: launch_command enters exactly one launcher for every resolved
\* configuration, none twice, and it is the first match of the priority list.
C2_FirstMatchSelected ==
    /\ pc = "validated" => launcher = "none"
    /\ pc = "done" =>
          \/ launcher = "none" /\ outcome.kind # "pending" /\ outcome.kind # "returned"
          \/ launcher # "none" /\ launcher = C2_Priority(args, defaults)
    /\ spawned + runtime_calls <= 1

C2_Witness ==
    /\ pc = "done"
    /\ launcher = "tpu_pod_launcher"
    /\ defaults # None
    /\ Val(defaults).compute_environment = AMAZON_SAGEMAKER

\* C3 as stated: with cpu forced and resolution successful, the launcher is
\* simple_launcher, whatever the other flags and the persisted configuration.
C3_AsStated ==
    (pc = "done" /\ launcher # "none" /\ raw.cpu) => launcher = "simple_launcher"

\* C3 amended: with cpu forced and resolution successful, the launcher is
\* simple_launcher whatever the distributed-mode flags, given or adopted,
\* unless a persisted configuration whose compute environment is
\* managed-cloud was loaded through an explicit config path: then it is
\* sagemaker_launcher.
C3_CpuFallsThrough ==
    (pc = "done" /\ launcher # "none" /\ raw.cpu) =>
        launcher = IF raw.config_file # None
                      /\ config.compute_environment = "AMAZON_SAGEMAKER"
                   THEN "sagemaker_launcher"
                   ELSE "simple_launcher"

C3_Witness ==
    /\ pc = "done"
    /\ raw.cpu
    /\ raw.config_file # None
    /\ config.distributed_type = "DEEPSPEED"
    /\ args.use_deepspeed
    /\ launcher = "simple_launcher"

\* C4 as stated: after a successful resolution at most one of cpu,
\* multi_gpu, tpu, use_deepspeed, use_megatron_lm, use_fsdp is true.
AllModes == {"cpu", "multi_gpu", "tpu", "use_deepspeed", "use_megatron_lm", "use_fsdp"}

C4_AsStated ==
    pc = "validated" => Cardinality(TrueFlags(args, AllModes)) <= 1

\* multi_gpu was switched on by the device probe, not by the caller
C4_AutoEnabled == defaults = None /\ ~raw.multi_gpu /\ args.multi_gpu

\* the mode was taken from the persisted configuration
C4_Adopted ==
    /\ defaults # None
    /\ TrueFlags(raw, AllModes \ {"cpu"}) = {}
    /\ ~raw.tpu_use_cluster

\* C4 amended: after a successful resolution at most one of the six is true,
\* except that use_megatron_lm given explicitly may accompany another mode,
\* multi_gpu auto-enabled by the device probe may accompany any other flag,
\* and cpu may accompany a mode adopted from the persisted configuration;
\* the modes other than cpu and multi_gpu given or adopted exclude each other
\* up to an explicit use_megatron_lm.
C4_ModesExclusiveUpTo ==
    pc = "validated" =>
        /\ Cardinality(TrueFlags(args, {"tpu", "use_deepspeed", "use_fsdp"})) <= 1
        /\ Cardinality(TrueFlags(args, AllModes)) > 1 =>
              \/ raw.use_megatron_lm
              \/ C4_AutoEnabled
              \/ raw.cpu /\ C4_Adopted
        /\ C4_Adopted => Cardinality(TrueFlags(args, AllModes \ {"cpu"})) <= 1

C4_Witness ==
    /\ pc = "validated"
    /\ C4_AutoEnabled
    /\ raw.use_deepspeed
    /\ args.use_deepspeed /\ args.multi_gpu

(***************************************************************************)
(* Values of a request as the merge rules give them, read off the raw      *)
(* request and the configuration file.                                     *)
(***************************************************************************)
ConfigRead == raw.config_file # None \/ (probe.default_config_isfile /\ ~raw.cpu)

ModeAdopted ==
    /\ ConfigRead
    /\ TrueFlags(raw, AllModes \ {"cpu"}) = {}
    /\ ~raw.tpu_use_cluster

PassedSanity == outcome.kind \notin {ErrExclusive, ErrTwoProcesses}

AllGpus == Some(<<"all">>)

SingleGpuId(g) == g # None /\ g # AllGpus /\ Len(Val(g)) = 1

\* C5 as stated: no resolution succeeds with multi-GPU mode active,
\* num_machines = 1 and gpu_ids a literal list of exactly one id, with or
\* without a persisted configuration.
C5_AsStated ==
    pc = "validated" =>
        ~(args.multi_gpu /\ args.num_machines = Some(1) /\ SingleGpuId(args.gpu_ids))

\* C5 amended: when a persisted configuration is loaded, every request that
\* resolves to multi-GPU mode active, num_machines = 1 and gpu_ids a literal
\* list of exactly one id fails with the GPU-ids configuration error; on the
\* auto-detect path gpu_ids is not validated.
C5_RejectedWithConfig ==
    LET multi == raw.multi_gpu \/ (ModeAdopted /\ config.distributed_type = "MULTI_GPU")
        gids == IF raw.gpu_ids # None THEN raw.gpu_ids
                ELSE IF config.gpu_ids # None THEN config.gpu_ids ELSE AllGpus
        machines == IF raw.num_machines # None THEN raw.num_machines
                    ELSE config.num_machines
    IN /\ (pc = "validated" /\ defaults # None) =>
              ~(args.multi_gpu /\ args.num_machines = Some(1) /\ SingleGpuId(args.gpu_ids))
       /\ (pc # "start" /\ ConfigRead /\ PassedSanity
             /\ multi /\ machines = Some(1) /\ SingleGpuId(gids))
          => (ResolutionFailed /\ outcome.kind = ErrGpuIds)

C5_Witness ==
    /\ ResolutionFailed
    /\ outcome.kind = ErrGpuIds
    /\ ~raw.multi_gpu /\ raw.gpu_ids = None /\ raw.num_machines = None
    /\ config.distributed_type = "MULTI_GPU"
    /\ config.gpu_ids = Some(<<"0">>)

\* C6 as stated: after a successful resolution num_processes is a positive
\* integer, and at least 2 when multi-GPU mode is active.
C6_AsStated ==
    pc = "validated" =>
        /\ args.num_processes # None
        /\ Val(args.num_processes) >= 1
        /\ args.multi_gpu => Val(args.num_processes) >= 2

\* C6 amended: after a successful resolution an explicit num_processes is
\* kept, and is at least 2 when multi_gpu was requested with it; an unset
\* num_processes is the persisted value when a local-machine configuration
\* is loaded, stays unset under a managed-cloud configuration, and is the
\* probed device count (possibly 0 or 1, also with multi-GPU mode active)
\* on the auto-detect path.
C6_NumProcessesResolved ==
    LET probed == IF raw.use_xpu /\ probe.xpu_available THEN probe.xpu_count
                  ELSE IF probe.npu_available THEN probe.npu_count
                  ELSE probe.cuda_count
    IN pc = "validated" =>
        /\ raw.num_processes # None =>
              /\ args.num_processes = raw.num_processes
              /\ raw.multi_gpu => Val(args.num_processes) >= 2
        /\ (raw.num_processes = None /\ ~ConfigRead) =>
              args.num_processes = Some(probed)
        /\ (raw.num_processes = None /\ ConfigRead) =>
              args.num_processes =
                 IF config.compute_environment = "LOCAL_MACHINE"
                 THEN config.num_processes ELSE None

C6_Witness ==
    /\ pc = "validated"
    /\ raw.num_processes = None /\ ~raw.multi_gpu /\ defaults = None
    /\ args.multi_gpu
    /\ args.num_processes = Some(1)

\* native mixed-precision support as the resolved arguments see it
C7_Native(a) ==
    IF IsTrue(getattr(a, "use_cpu", None)) \/ (a.use_xpu /\ probe.torch_xpu_available)
    THEN probe.torch_ge_1_10
    ELSE probe.bf16_available

IsSet(a, f) == IF f \in StoreTrueFlags THEN a[f] ELSE a[f] # None

\* C8 as stated: every field set in the raw request keeps its value through
\* resolution, the fields of the nested sub-configurations included.
C8_AsStated ==
    pc = "validated" => \A f \in DOMAIN raw : IsSet(raw, f) => args[f] = raw[f]

\* C9 as stated: after a successful resolution gpu_ids is the explicit value,
\* else the persisted one, else "all", and num_processes, num_machines,
\* mixed_precision and num_cpu_threads_per_process are set, the machine and
\* thread counts at least 1.
C9_GpuIdsMerged ==
    args.gpu_ids = IF raw.gpu_ids # None THEN raw.gpu_ids
                   ELSE IF ConfigRead /\ config.gpu_ids # None THEN config.gpu_ids
                   ELSE AllGpus

C10_SubprocessExit ==
    /\ spawned <= 1
    /\ (pc = "done" /\ launcher = "simple_launcher") => spawned = 1
    /\ (pc = "done" /\ spawned = 1) =>
          /\ launcher \in {"simple_launcher", "deepspeed_launcher"}
          /\ returncode # None
          /\ runtime_calls = 0
          /\ Val(returncode) = 0 => outcome = [kind |-> "returned", code |-> 0]
          /\ (Val(returncode) # 0 /\ ~args.quiet) =>
                outcome = [kind |-> "CalledProcessError", code |-> Val(returncode)]
          /\ (Val(returncode) # 0 /\ args.quiet) =>
                outcome = [kind |-> "SystemExit", code |-> 1]

C10_Witness ==
    /\ pc = "done"
    /\ launcher = "deepspeed_launcher"
    /\ spawned = 1
    /\ returncode = Some(MaxExit)
    /\ args.quiet
    /\ outcome = [kind |-> "SystemExit", code |-> 1]

(***************************************************************************)
(* The delegated runtimes and the environment patch.                       *)
(***************************************************************************)
RuntimeLaunchers == {"multi_gpu_launcher", "deepspeed_launcher", "tpu_pod_launcher"}

\* C11 as stated: when the delegated runtime of multi_gpu_launcher,
\* deepspeed_launcher or tpu_pod_launcher raised, the launcher ends with that
\* exception, with and without debug; it never returns normally.
C11_AsStated ==
    (pc = "done" /\ launcher \in RuntimeLaunchers /\ runtime_raised)
        => outcome = Raised("Exception")

\* the launchers that call their runtime inside the environment patch
PatchingLaunchers == {"multi_gpu_launcher", "deepspeed_launcher", "tpu_launcher"}

\* the environment the runtime of a patching launcher is to see
C12_Patched(a, env) ==
    LET kv == EnvAdditions(a)
    IN [n \in DOMAIN env \cup DOMAIN kv |-> IF n \in DOMAIN kv THEN kv[n] ELSE env[n]]

C13_Probed ==
    IF raw.use_xpu /\ probe.xpu_available THEN probe.xpu_count
    ELSE IF probe.npu_available THEN probe.npu_count
    ELSE probe.cuda_count

\* some device probe reports more than one device
C13_ManyDevices ==
    \/ raw.use_xpu /\ probe.xpu_available /\ probe.xpu_count > 1
    \/ probe.npu_available /\ probe.npu_count > 1
    \/ probe.cuda_count > 1

\* scenario A: no mode flag, nothing explicit, no configuration, N > 1 devices
C13_ScenarioA ==
    (/\ pc = "validated" /\ defaults = None
     /\ TrueFlags(raw, AllModes) = {}
     /\ raw.num_processes = None /\ raw.num_machines = None
     /\ raw.mixed_precision = None
     /\ C13_Probed > 1)
    => /\ args.multi_gpu
       /\ args.num_processes = Some(C13_Probed)
       /\ args.num_machines = Some(1)
       /\ args.mixed_precision = Some("no")
       /\ SelectLauncher(args, defaults) = "multi_gpu_launcher"

\* multi-GPU mode is switched on by resolution only with more than one
\* device probed and no explicit request for a single process
C13_OnlyWhenUnrequested ==
    (pc = "validated" /\ defaults = None /\ ~raw.multi_gpu /\ args.multi_gpu)
    => (C13_ManyDevices /\ raw.num_processes # Some(1))

\* C13 as stated: on the auto-detect path a request with no mode flag and no
\* explicit num_processes, num_machines or mixed_precision on a host with
\* N > 1 devices resolves to multi-GPU mode, num_processes = N,
\* num_machines = 1, mixed_precision = "no" and multi_gpu_launcher; and
\* multi-GPU mode is auto-enabled only when more than one device is probed
\* and the caller did not ask for a single process.
C13_AsStated == C13_ScenarioA /\ C13_OnlyWhenUnrequested

(***************************************************************************)
(* Entry points the launchers refuse.                                      *)
(***************************************************************************)
NothingStarted == spawned = 0 /\ runtime_calls = 0

\* C14 as stated: a request with tpu, without tpu_use_cluster and with
\* no_python is rejected by resolution: no launcher is entered and nothing
\* is started, whatever the configuration and the probes.
C14_AsStated ==
    (pc # "start" /\ raw.tpu /\ ~raw.tpu_use_cluster /\ raw.no_python)
    => (ResolutionFailed /\ NothingStarted)

\* C14 amended: resolution does not look at no_python.  A request with tpu,
\* without tpu_use_cluster and with no_python that resolves and reaches
\* tpu_launcher is rejected there with an error before anything is started;
\* when multi-GPU mode was auto-enabled by the device probe or
\* use_megatron_lm was given, multi_gpu_launcher is entered instead and runs.
C14_RejectedByLauncher ==
    (pc = "done" /\ raw.tpu /\ ~raw.tpu_use_cluster /\ raw.no_python /\ ~ResolutionFailed)
    => \/ /\ launcher = "tpu_launcher"
          /\ outcome = Raised("ValueError: --no_python with TPU")
          /\ NothingStarted
          /\ ~raw.use_megatron_lm /\ ~C4_AutoEnabled
       \/ /\ launcher = "multi_gpu_launcher"
          /\ raw.use_megatron_lm \/ C4_AutoEnabled
          /\ runtime_calls = 1

C14_Witness ==
    /\ pc = "done"
    /\ raw.tpu /\ ~raw.tpu_use_cluster /\ raw.no_python
    /\ launcher = "tpu_launcher"
    /\ outcome = Raised("ValueError: --no_python with TPU")
    /\ defaults # None

(***************************************************************************)
(* The auxiliary environment file of the DeepSpeed launcher.               *)
(***************************************************************************)
\* the lines of file `after` that follow the content `before`
C15_Appended(before, after) == SubSeq(after, Len(before) + 1, Len(after))

\* C15: when deepspeed_launcher runs, .deepspeed_env keeps its content as a
\* prefix; nothing is added with num_machines <= 1 or with the "standard"
\* multinode launcher; with num_machines > 1 and another launcher exactly
\* one KEY=VALUE line is added for every variable of the built environment
\* whose value holds neither " " nor ";", and none for the others.
C15_AuxiliaryFile ==
    [][(launcher' = "deepspeed_launcher" /\ probe.is_deepspeed_available
            /\ args.num_machines # None)
       => LET env == C12_Patched(args', environ)
              multinode == Val(args.num_machines) > 1
              standard == args.deepspeed_multinode_launcher = Some("standard")
              added == C15_Appended(deepspeed_env, deepspeed_env')
              Clean(k) == \A i \in 1..Len(env[k]) : env[k][i] # " " /\ env[k][i] # ";"
          IN /\ Len(deepspeed_env') >= Len(deepspeed_env)
             /\ SubSeq(deepspeed_env', 1, Len(deepspeed_env)) = deepspeed_env
             /\ (~multinode \/ standard) => deepspeed_env' = deepspeed_env
             /\ (multinode /\ ~standard) =>
                   /\ \A k \in DOMAIN env :
                         Cardinality({i \in 1..Len(added) : added[i][1] = k})
                            = IF Clean(k) THEN 1 ELSE 0
                   /\ \A i \in 1..Len(added) :
                         /\ added[i][1] \in DOMAIN env
                         /\ added[i] = <<added[i][1], "=">> \o env[added[i][1]]]_vars

C15_Witness ==
    /\ pc = "done"
    /\ launcher = "deepspeed_launcher"
    /\ spawned = 1
    /\ "NCCL_DEBUG" \in DOMAIN environ
    /\ \E i \in 1..Len(environ.NCCL_DEBUG) : environ.NCCL_DEBUG[i] = " "
    /\ deepspeed_env = << <<"PATH", "=", "/bin">>,
                          <<"PATH", "=", "/usr/bin">>,
                          <<"ACCELERATE_MIXED_PRECISION", "=", "no">> >>

\* a managed-cloud configuration was loaded
C16_Managed == defaults # None /\ Val(defaults).compute_environment = AMAZON_SAGEMAKER

\* a distributed mode that launch_command tests before the compute environment
C16_ModeActive ==
    /\ ~args.cpu
    /\ TrueFlags(args, {"use_deepspeed", "use_fsdp", "use_megatron_lm", "multi_gpu", "tpu"}) # {}

\* C16 as stated: with a managed-cloud configuration and module or no_python
\* the run ends with a configuration error, nothing is built, submitted or
\* started, and no other launcher is entered, whatever the distributed type.
C16_AsStated ==
    (pc = "done" /\ C16_Managed /\ (raw.module \/ raw.no_python))
    => /\ launcher \in {"none", "sagemaker_launcher"}
       /\ outcome.kind \in ConfigurationErrors \cup {"ValueError: --module or --no_python"}
       /\ NothingStarted

\* C16 amended: with a managed-cloud configuration loaded, module or
\* no_python given and no distributed mode active (given or adopted, cpu not
\* set), sagemaker_launcher is entered and fails before anything is built or
\* submitted: with ImportError when SageMaker support is not installed, with
\* the configuration error otherwise.  With a distributed mode active the
\* launcher of that mode is entered instead.
C16_RefusedBySagemaker ==
    (pc = "done" /\ ~ResolutionFailed /\ C16_Managed /\ (raw.module \/ raw.no_python))
    => IF C16_ModeActive
       THEN launcher \notin {"sagemaker_launcher", "simple_launcher"}
       ELSE /\ launcher = "sagemaker_launcher"
            /\ NothingStarted
            /\ outcome = IF probe.is_sagemaker_available
                         THEN Raised("ValueError: --module or --no_python")
                         ELSE Raised("ImportError")

C16_Witness ==
    /\ pc = "done"
    /\ C16_Managed
    /\ raw.module /\ ~raw.no_python
    /\ Val(defaults).distributed_type = "NO"
    /\ launcher = "sagemaker_launcher"
    /\ outcome = Raised("ValueError: --module or --no_python")

(***************************************************************************)
(* The docker check of the TPU pod launcher.                               *)
(***************************************************************************)
\* C17: when tpu_pod_launcher ran, either some docker_ field of the filtered
\* arguments is neither empty nor unset, the launcher raised one error that
\* names every such field and resolve_and_execute was not called; or no
\* such field is set and resolve_and_execute was called exactly once.
C17_DockerRejected ==
    (pc = "done" /\ launcher = "tpu_pod_launcher")
    => /\ pod_args # None
       /\ LET docker == Val(pod_args)
              set == {f \in DOMAIN docker : ~(docker[f] = None \/ docker[f] = Some(""))}
          IN IF set # {}
             THEN /\ outcome = Raised("ValueError: docker flags")
                  /\ bad_flags = set
                  /\ runtime_calls = 0
             ELSE /\ bad_flags = {}
                  /\ runtime_calls = 1
                  /\ outcome.kind # "ValueError: docker flags"

C17_Witness ==
    /\ pc = "done"
    /\ launcher = "tpu_pod_launcher"
    /\ pod_args = Some([docker_image |-> Some("img"), docker_container |-> Some("box")])
    /\ bad_flags = {"docker_image", "docker_container"}
    /\ runtime_calls = 0

(***************************************************************************)
(* The two branches of the DeepSpeed launcher.                             *)
(***************************************************************************)
\* deepspeed_launcher got past its import check and the num_machines test
C18_Launched ==
    /\ pc = "done"
    /\ launcher = "deepspeed_launcher"
    /\ probe.is_deepspeed_available
    /\ args.num_machines # None

\* one child was spawned and waited for, and its exit code mapped
C18_ChildSupervised ==
    /\ spawned = 1
    /\ runtime_calls = 0
    /\ returncode # None
    /\ outcome = IF Val(returncode) = 0 THEN Returned
                 ELSE IF args.quiet THEN [kind |-> "SystemExit", code |-> 1]
                 ELSE [kind |-> "CalledProcessError", code |-> Val(returncode)]

\* C18 as stated: on a single node deepspeed_launcher spawns exactly one
\* child, waits for it and maps its exit code; the in-process runtime is not
\* called.
C18_AsStated ==
    (C18_Launched /\ Val(args.num_machines) <= 1) => C18_ChildSupervised

\* C18 amended: deepspeed_launcher spawns exactly one child, waits for it and
\* maps its exit code only with num_machines > 1 and a multinode launcher
\* other than "standard"; on a single node, and with the "standard"
\* launcher, it spawns nothing and calls the in-process runtime once, inside
\* the environment patch.
C18_InProcessOnSingleNode ==
    C18_Launched =>
        IF Val(args.num_machines) > 1
            /\ args.deepspeed_multinode_launcher # Some("standard")
        THEN C18_ChildSupervised
        ELSE /\ spawned = 0
             /\ returncode = None
             /\ runtime_calls = 1
             /\ runtime_env # None
             /\ outcome \in {Returned, Raised("Exception")}

C18_Witness ==
    /\ C18_Launched
    /\ args.num_machines = Some(1)
    /\ args.deepspeed_multinode_launcher = Some("pdsh")
    /\ spawned = 0
    /\ runtime_calls = 1

(***************************************************************************)
(* Where mixed_precision came from.                                        *)
(***************************************************************************)
\* the fields a comma-joined string lists
C19_Listed(str) == LET Field(x) == x # "," IN SelectSeq(str, Field)

\* C19: after a successful resolution mp_from_config_flag is true exactly
\* when a configuration was loaded, the request left mixed_precision unset
\* and the persisted mixed_precision was adopted; and when deepspeed_launcher
\* is entered, deepspeed_fields_from_accelerate_config lists the keys of the
\* persisted deepspeed_config (nothing without a configuration), each once,
\* followed by "mixed_precision" exactly when the flag is true.
C19_Provenance ==
    /\ Resolved =>
          /\ mp_from_config_flag <=>
                (defaults # None /\ raw.mixed_precision = None
                    /\ config.mixed_precision # None)
          /\ mp_from_config_flag => args.mixed_precision = config.mixed_precision
    /\ (pc = "done" /\ launcher = "deepspeed_launcher") =>
          LET str == args.deepspeed_fields_from_accelerate_config
              listed == C19_Listed(str)
              keys == IF defaults # None THEN DOMAIN config.deepspeed_config ELSE {}
              n == Cardinality(keys)
          IN /\ Len(str) = IF Len(listed) = 0 THEN 0 ELSE 2 * Len(listed) - 1
             /\ Len(listed) = n + IF mp_from_config_flag THEN 1 ELSE 0
             /\ {listed[i] : i \in 1..n} = keys
             /\ mp_from_config_flag => listed[n + 1] = "mixed_precision"

C19_Witness ==
    /\ pc = "done"
    /\ launcher = "deepspeed_launcher"
    /\ mp_from_config_flag
    /\ args.mixed_precision = Some("bf16")
    /\ args.deepspeed_fields_from_accelerate_config =
          <<"zero_stage", ",", "offload_optimizer_device", ",", "mixed_precision">>

====
